---- MODULE Spec2Model ----
(***************************************************************************)
(* Verification model of the iterative solver core of NumericalOptimization *)
(*                                                                         *)
(*   AcceleratedGradient.minimize        (accelerated_gradient.py)         *)
(*   ProximalBundle.minimize             (proximal_bundle.py)              *)
(*   LagrangianBoxConstrainedQuadratic   (opti/constrained/bcqp/_base.py)  *)
(*   LineSearchOptimizer.__init__        (line_search_optimizer.py)        *)
(*                                                                         *)
(* Real numbers are fixed-point integers: the real r is stored as the      *)
(* integer r * Scale, products and quotients are rounded to the nearest    *)
(* unit (ties away from zero, so that the arithmetic is symmetric in the   *)
(* sign, as IEEE arithmetic is).                                           *)
(***************************************************************************)
EXTENDS Integers, Sequences, FiniteSets

VARIABLES ag, pb, lb, lso, mt

vars == <<ag, pb, lb, lso, mt>>

(***************************************************************************)
(* Bounds of the model                                                     *)
(***************************************************************************)
Scale == 16
MaxFEval == 5

(***************************************************************************)
(* Fixed-point arithmetic                                                  *)
(***************************************************************************)
Abs(a) == IF a < 0 THEN -a ELSE a

Sgn(a) == IF a < 0 THEN -1 ELSE 1

\* a / b for integers, rounded to the nearest integer, ties away from zero
RoundDiv(a, b) == Sgn(a) * Sgn(b) * ((2 * Abs(a) + Abs(b)) \div (2 * Abs(b)))

Fx(n) == n * Scale

Mul(a, b) == RoundDiv(a * b, Scale)

Div(a, b) == RoundDiv(a * Scale, b)

RECURSIVE ISqrtFrom(_, _)
ISqrtFrom(n, r) == IF (r + 1) * (r + 1) > n THEN r ELSE ISqrtFrom(n, r + 1)

\* np.sqrt of a non-negative fixed-point number (rounded down)
Sqrt(a) == ISqrtFrom(a * Scale, 0)

(***************************************************************************)
(* np.inf and -np.inf: greater (smaller) than every number a run computes  *)
(***************************************************************************)
Inf == 1000000000

NegInf == -Inf

\* v < w where w may be np.inf
Lt(v, w) == v < w

\* v > w where w may be np.inf
Gt(v, w) == v > w

\* v <= m where m may be -np.inf
Leq(v, m) == v <= m

(***************************************************************************)
(* Objective functions handed to AcceleratedGradient (one-dimensional):    *)
(*   "sq"  f(x) = x^2, gradient 2x                                         *)
(*   "lin" f(x) = -x,  gradient -1    (unbounded below)                    *)
(*   "abs" f(x) = |x|, gradient sign(x)  (a mean-absolute-error loss)      *)
(***************************************************************************)
Objectives == {"sq", "lin", "abs"}

Function(f, x) == IF f = "sq" THEN Mul(x, x) ELSE IF f = "lin" THEN -x ELSE Abs(x)

Jacobian(f, x) ==
    IF f = "sq" THEN 2 * x
    ELSE IF f = "lin" THEN -Fx(1)
    ELSE IF x > 0 THEN Fx(1) ELSE IF x < 0 THEN -Fx(1) ELSE 0

\* np.linalg.norm of a one-dimensional vector
Norm(g) == Abs(g)

(***************************************************************************)
(* AcceleratedGradient                                                     *)
(*                                                                         *)
(* ag is the solver instance together with the locals of minimize():       *)
(*   pc       position in minimize(): "eval" (loop head), "check" (the     *)
(*            stopping criteria), "update" (after the step size),  "done"  *)
(*   status   the returned status ("running" inside the loop); "fault"     *)
(*            stands for an exception leaving minimize() instead of a      *)
(*            return                                                       *)
(*   assigned the local names of minimize() that have been assigned; a     *)
(*            name outside it holds 0 and reading it raises                *)
(*            UnboundLocalError                                            *)
(*   evaluated the values of the objective computed so far by minimize()   *)
(*            itself: f(y) and, in the monotone fixed-step version,        *)
(*            f(y - a * g)                                                 *)
(*   blend    the direction produced by the latest blend of the wf = 3     *)
(*            formula (zeros before the first blend)                       *)
(***************************************************************************)
AGStatuses == {"optimal", "unbounded", "stopped", "error"}

\* Configurations accepted by AcceleratedGradient.__init__
AGConfigs ==
    [f : Objectives,
     x0 : {Fx(2), -Fx(1)},
     a_start : {Scale \div 4, Scale \div 2, Fx(1), -Fx(1)},
     m1 : {0, Scale \div 2},
     mon : {0, 1},
     wf : 0..3,
     eps : {Scale \div 4, -(Scale \div 2)},
     max_f_eval : 1..MaxFEval,
     tau : {Scale \div 2},
     m_inf : {NegInf, -Fx(4)},
     min_a : {1, Scale \div 2}]

\* AcceleratedGradient.__init__ validation of m1 and wf
AGAccepted(c) == ~(c.m1 < 0 \/ c.m1 >= Fx(1)) /\ ~(c.wf < 0 \/ c.wf > 3)

\* State of minimize() on reaching the loop for the first time
AGStart(c) ==
    [cfg |-> c,
     pc |-> "eval",
     status |-> "running",
     assigned |-> {"last_x", "f_eval", "i", "gamma", "y"}
                  \cup (IF c.wf = 3 THEN {"d"} ELSE {})
                  \cup (IF c.mon # 0 THEN {"past_x", "past_xv"} ELSE {}),
     x |-> c.x0,
     a_start |-> c.a_start,
     last_x |-> 0,
     f_eval |-> 1,
     i |-> 1,
     gamma |-> Fx(1),
     d |-> 0,
     y |-> c.x0,
     past_x |-> IF c.mon # 0 THEN c.x0 ELSE 0,
     past_xv |-> IF c.mon # 0 THEN Inf ELSE 0,
     v |-> 0,
     g |-> 0,
     ng |-> 0,
     ng0 |-> 0,
     a |-> 0,
     xv |-> 0,
     beta |-> 0,
     evaluated |-> {},
     blend |-> 0]

\* the first-iteration choice of ng0
AGNg0(f_eval, eps, ng) == IF f_eval = 1 /\ eps < 0 THEN -ng ELSE Fx(1)

\* the test of the stopping criterion
AGIsOptimal(ng, eps, ng0) == ng <= Mul(eps, ng0)

\* faulty variant of AGCount: an evaluation is counted twice
AGCountTwice(f_eval) == f_eval + 2

\* f_eval += 1
AGCount(f_eval) == f_eval + 1

\* faulty variant of AGBudgetSpent: the budget test is late by one evaluation
AGBudgetSpentLate(f_eval, max_f_eval) == f_eval > max_f_eval + 1

\* the test of the evaluation budget
AGBudgetSpent(f_eval, max_f_eval) == f_eval > max_f_eval

\* Backtracking line search: phi(a) = f(x + a d), accepted when
\* phi(a) <= phi0 + m1 a phi_p0, otherwise a is multiplied by tau; ends when
\* a <= min_a or the evaluation budget is spent (with no evaluation made, the
\* value and point handed in are handed back).
RECURSIVE BacktrackingLoop(_, _, _, _, _, _, _, _, _, _, _, _)
BacktrackingLoop(f, d, x, f_eval, max_f_eval, min_a, phi0, phi_p0, a, m1, tau, last) ==
    IF f_eval <= max_f_eval /\ a > min_a
    THEN LET pt == x + Mul(a, d)
             phi_a == Function(f, pt)
         IN IF phi_a <= phi0 + Mul(Mul(m1, a), phi_p0)
            THEN [a |-> a, v |-> phi_a, last_x |-> pt, f_eval |-> f_eval + 1]
            ELSE BacktrackingLoop(f, d, x, f_eval + 1, max_f_eval, min_a, phi0, phi_p0,
                                  Mul(a, tau), m1, tau, [v |-> phi_a, last_x |-> pt])
    ELSE [a |-> a, v |-> last.v, last_x |-> last.last_x, f_eval |-> f_eval]

backtracking_line_search(f, d, x, last_x, f_eval, max_f_eval, min_a, phi0, phi_p0, a_start, m1, tau) ==
    BacktrackingLoop(f, d, x, f_eval, max_f_eval, min_a, phi0, phi_p0, a_start, m1, tau,
                     [v |-> phi0, last_x |-> last_x])

\* compute f(y), count the evaluation, monotone update of x
AGEvaluate ==
    /\ ag.pc = "eval"
    /\ LET c == ag.cfg
           v == Function(c.f, ag.y)
           g == Jacobian(c.f, ag.y)
           ng == Norm(g)
           better == c.mon # 0 /\ Lt(v, ag.past_xv)
       IN ag' = [ag EXCEPT !.pc = "check",
                           !.assigned = @ \cup {"v", "g", "ng", "ng0"},
                           !.v = v,
                           !.g = g,
                           !.ng = ng,
                           !.ng0 = AGNg0(ag.f_eval, c.eps, ng),
                           !.f_eval = AGCount(ag.f_eval),
                           !.x = IF better THEN ag.y ELSE @,
                           !.past_xv = IF better THEN v ELSE @,
                           !.evaluated = @ \cup {v}]
    /\ UNCHANGED <<pb, lb, lso, mt>>

AGStopOptimal ==
    /\ ag.pc = "check"
    /\ AGIsOptimal(ag.ng, ag.cfg.eps, ag.ng0)
    /\ ag' = [ag EXCEPT !.pc = "done", !.status = "optimal"]
    /\ UNCHANGED <<pb, lb, lso, mt>>

AGStopBudget ==
    /\ ag.pc = "check"
    /\ ~AGIsOptimal(ag.ng, ag.cfg.eps, ag.ng0)
    /\ AGBudgetSpent(ag.f_eval, ag.cfg.max_f_eval)
    /\ ag' = [ag EXCEPT !.pc = "done", !.status = "stopped"]
    /\ UNCHANGED <<pb, lb, lso, mt>>

\* d = -g and the step size: line search if m1 > 0, fixed step otherwise
AGStepSize ==
    /\ ag.pc = "check"
    /\ ~AGIsOptimal(ag.ng, ag.cfg.eps, ag.ng0)
    /\ ~AGBudgetSpent(ag.f_eval, ag.cfg.max_f_eval)
    /\ LET c == ag.cfg
           d == -ag.g
       IN IF c.m1 > 0
          THEN LET ls == backtracking_line_search(c.f, d, ag.x, ag.last_x, ag.f_eval,
                                                  c.max_f_eval, c.min_a, ag.v, -ag.ng,
                                                  Abs(ag.a_start), c.m1, c.tau)
               IN ag' = [ag EXCEPT !.pc = "update",
                                   !.assigned = @ \cup {"d", "a"},
                                   !.d = d,
                                   !.a = ls.a,
                                   !.v = ls.v,
                                   !.last_x = ls.last_x,
                                   !.f_eval = ls.f_eval,
                                   !.a_start = IF @ < 0 THEN -ls.a ELSE @]
          ELSE LET a == Abs(ag.a_start)
                   last_x == ag.y - Mul(a, ag.g)
               IN ag' = [ag EXCEPT !.pc = "update",
                                   !.assigned = @ \cup {"d", "a"}
                                                  \cup (IF c.mon # 0 THEN {"xv"} ELSE {}),
                                   !.d = d,
                                   !.a = a,
                                   !.last_x = last_x,
                                   !.xv = IF c.mon # 0 THEN Function(c.f, last_x) ELSE @,
                                   !.evaluated = IF c.mon # 0
                                                 THEN @ \cup {Function(c.f, last_x)}
                                                 ELSE @]
    /\ UNCHANGED <<pb, lb, lso, mt>>

AGError ==
    /\ ag.pc = "update"
    /\ ag.a <= ag.cfg.min_a
    /\ ag' = [ag EXCEPT !.pc = "done", !.status = "error"]
    /\ UNCHANGED <<pb, lb, lso, mt>>

AGUnbounded ==
    /\ ag.pc = "update"
    /\ ~(ag.a <= ag.cfg.min_a)
    /\ Leq(ag.v, ag.cfg.m_inf)
    /\ ag' = [ag EXCEPT !.pc = "done", !.status = "unbounded"]
    /\ UNCHANGED <<pb, lb, lso, mt>>

\* the names the rest of the iteration reads without assigning them first
AGReads(s) ==
    (IF s.cfg.mon # 0 THEN {"xv", "past_xv", "past_x"} ELSE {})
    \cup (IF s.cfg.wf = 3 THEN {"d"} ELSE {})
    \cup {"last_x", "gamma", "i", "g", "a"}

AGReadsUnbound(s) == ~(AGReads(s) \subseteq s.assigned)

\* reading a local that was never assigned raises UnboundLocalError
AGFault ==
    /\ ag.pc = "update"
    /\ ~(ag.a <= ag.cfg.min_a)
    /\ ~Leq(ag.v, ag.cfg.m_inf)
    /\ AGReadsUnbound(ag)
    /\ ag' = [ag EXCEPT !.pc = "done", !.status = "fault"]
    /\ UNCHANGED <<pb, lb, lso, mt>>

\* the momentum coefficient: [gamma, beta] after "perform appropriate black magic"
AGMomentum(wf, gamma, beta, i) ==
    IF wf = 0
    THEN LET g2 == Mul(gamma, gamma)
             g4 == Mul(g2, g2)
             new == RoundDiv(Sqrt(4 * g2 + g4) - g2, 2)
         IN [gamma |-> new, beta |-> Mul(new, Div(Fx(1), gamma) - Fx(1))]
    ELSE IF wf = 1
    THEN LET new == RoundDiv(Fx(1) + Sqrt(Fx(1) + 4 * gamma), 2)
         IN [gamma |-> new, beta |-> Div(gamma - Fx(1), new)]
    ELSE IF wf = 2
    THEN [gamma |-> gamma, beta |-> Div(Fx(i), Fx(i + 3))]
    ELSE [gamma |-> gamma, beta |-> beta]

\* monotone safeguard, momentum, next y, x = last_x, i += 1
AGUpdate ==
    /\ ag.pc = "update"
    /\ ~(ag.a <= ag.cfg.min_a)
    /\ ~Leq(ag.v, ag.cfg.m_inf)
    /\ ~AGReadsUnbound(ag)
    /\ LET c == ag.cfg
           worse == c.mon # 0 /\ Gt(ag.xv, ag.past_xv)
           last_x == IF worse THEN ag.past_x ELSE ag.last_x
           past_x == IF c.mon # 0 /\ ~worse THEN ag.last_x ELSE ag.past_x
           past_xv == IF c.mon # 0 /\ ~worse THEN ag.xv ELSE ag.past_xv
           m == AGMomentum(c.wf, ag.gamma, ag.beta, ag.i)
           d == IF c.wf < 3 THEN ag.d
                ELSE Mul(Div(Fx(2), Fx(ag.i + 2)), ag.g) + Mul(Div(Fx(ag.i), Fx(ag.i + 2)), ag.d)
           z == -Mul(RoundDiv((ag.i + 1) * (ag.i + 2) * ag.a, 4), d)
           y == IF c.wf < 3 THEN last_x + Mul(m.beta, last_x - ag.x)
                ELSE Mul(Div(Fx(2), Fx(ag.i + 3)), z) + Mul(Div(Fx(ag.i + 1), Fx(ag.i + 3)), last_x)
       IN ag' = [ag EXCEPT !.pc = "eval",
                           !.assigned = @ \cup (IF c.wf < 3 THEN {"beta"} ELSE {}),
                           !.last_x = last_x,
                           !.past_x = past_x,
                           !.past_xv = past_xv,
                           !.gamma = m.gamma,
                           !.beta = m.beta,
                           !.d = d,
                           !.blend = IF c.wf < 3 THEN @ ELSE d,
                           !.y = y,
                           !.x = last_x,
                           !.i = ag.i + 1]
    /\ UNCHANGED <<pb, lb, lso, mt>>

NextAG ==
    \/ AGEvaluate
    \/ AGStopOptimal
    \/ AGStopBudget
    \/ AGStepSize
    \/ AGError
    \/ AGUnbounded
    \/ AGFault
    \/ AGUpdate

(***************************************************************************)
(* ProximalBundle                                                          *)
(*                                                                         *)
(* pb is the solver instance together with the locals of minimize().  The  *)
(* master problem is solved by an external QP solver: it either reports a  *)
(* failure or returns a pair (d, v) that satisfies the bundle constraints  *)
(* (the sdpvar / optimize / value calls of the source); [G, OMPCSEMI, g.T] *)
(* is the row concatenation [G; g'] and fd, g = f(x + d) is one evaluation *)
(* of the value and the subgradient at the trial point.                    *)
(*   G, F   the bundle: subgradients and translated function values        *)
(*   pts    for each piece, the point xi at which it was generated (the    *)
(*          code keeps only the constant fi - gi' * xi; xi is recorded     *)
(*          here to state the properties of the pieces)                    *)
(***************************************************************************)
PBMaxIter == 3
PBMaxPoint == 3

\* objectives handed to ProximalBundle (one-dimensional)
\*   "abs"  f(x) = |x|, subgradient sign(x)
\*   "sq"   f(x) = x^2
\*   "w"    f(x) = |x^2 - 1|  (not convex)
PBObjectives == {"abs", "sq", "w"}

PBFunction(f, x) ==
    IF f = "abs" THEN Abs(x)
    ELSE IF f = "sq" THEN Mul(x, x)
    ELSE Abs(Mul(x, x) - Fx(1))

PBJacobian(f, x) ==
    IF f = "abs" THEN (IF x > 0 THEN Fx(1) ELSE IF x < 0 THEN -Fx(1) ELSE 0)
    ELSE IF f = "sq" THEN 2 * x
    ELSE IF Mul(x, x) >= Fx(1) THEN 2 * x ELSE -2 * x

\* f.function([]): the known optimal value
PBFStar(f) == 0

PBConfigs ==
    [f : PBObjectives,
     x0 : {Fx(2), -Fx(1)},
     mu : {Fx(1)},
     m1 : {-(Scale \div 2), 0, Scale \div 2, Fx(1), Fx(2)},
     eps : {Scale \div 4, -(Scale \div 4)},
     max_iter : {PBMaxIter},
     m_inf : {NegInf, 0},
     cheat : BOOLEAN]

\* ProximalBundle.__init__ validation of mu and m1
PBAccepted(c) == ~(c.mu <= 0) /\ ~(c.m1 < 0 \/ c.m1 > Fx(1))

\* faulty variant of PBIntercept: the sign of the linear term is wrong
PBInterceptPlus(fv, g, x) == fv + Mul(g, x)

\* the constant kept for a piece generated at x with value fv and subgradient g
PBIntercept(fv, g, x) == fv - Mul(g, x)

\* state of minimize() on reaching the loop for the first time
PBStart(c) ==
    LET fx == PBFunction(c.f, c.x0)
        g == PBJacobian(c.f, c.x0)
    IN [cfg |-> c,
        pc |-> "master",
        status |-> "running",
        x |-> c.x0,
        fx |-> fx,
        g |-> g,
        G |-> <<g>>,
        F |-> <<PBIntercept(fx, g, c.x0)>>,
        pts |-> <<c.x0>>,
        f_star |-> IF c.cheat THEN PBFStar(c.f) ELSE NegInf,
        ng0 |-> IF c.eps < 0 THEN -Norm(g) ELSE Fx(1),
        i |-> 1,
        d |-> 0,
        v |-> 0,
        nd |-> 0,
        fd |-> 0]

\* the directions and values the QP solver may return
PBDirections == {Fx(k) : k \in -2..2}
PBValues == {Fx(k) : k \in -1..4}

\* the constraints M of the master problem
PBConstraints(s, d, v) ==
    /\ \A k \in 1..Len(s.G) : v >= s.F[k] + Mul(s.G[k], d + s.x)
    /\ s.f_star > NegInf => v >= s.f_star

\* faulty variant of PBIsSeriousStep: the sign of the predicted decrease is wrong
PBIsSeriousStepFlipped(fd, fx, m1, v) == fd <= fx + Mul(m1, fx - v)

\* faulty variant of PBIsSeriousStep: strict comparison
PBIsSeriousStepStrict(fd, fx, m1, v) == fd < fx + Mul(m1, v - fx)

\* the Serious Step test
PBIsSeriousStep(fd, fx, m1, v) == fd <= fx + Mul(m1, v - fx)

PBIsOptimal(s) == Mul(s.cfg.mu, s.nd) <= Mul(s.cfg.eps, s.ng0)

\* the solver of the master problem reports an error
PBMasterFails ==
    /\ pb.pc = "master"
    /\ pb' = [pb EXCEPT !.pc = "done", !.status = "error"]
    /\ UNCHANGED <<ag, lb, lso, mt>>

\* the solver of the master problem returns (d, v)
PBMasterSolved ==
    /\ pb.pc = "master"
    /\ \E d \in PBDirections, v \in PBValues :
          /\ Abs(pb.x + d) <= Fx(PBMaxPoint)
          /\ PBConstraints(pb, d, v)
          /\ pb' = [pb EXCEPT !.pc = "check", !.d = d, !.v = v, !.nd = Norm(d)]
    /\ UNCHANGED <<ag, lb, lso, mt>>

PBStopOptimal ==
    /\ pb.pc = "check"
    /\ PBIsOptimal(pb)
    /\ pb' = [pb EXCEPT !.pc = "done", !.status = "optimal"]
    /\ UNCHANGED <<ag, lb, lso, mt>>

PBStopBudget ==
    /\ pb.pc = "check"
    /\ ~PBIsOptimal(pb)
    /\ pb.i > pb.cfg.max_iter
    /\ pb' = [pb EXCEPT !.pc = "done", !.status = "stopped"]
    /\ UNCHANGED <<ag, lb, lso, mt>>

\* the trial point passes the stopping criteria and is evaluated
PBTrial(s) == s.pc = "check" /\ ~PBIsOptimal(s) /\ ~(s.i > s.cfg.max_iter)

PBUnbounded ==
    /\ PBTrial(pb)
    /\ LET fd == PBFunction(pb.cfg.f, pb.x + pb.d)
           g == PBJacobian(pb.cfg.f, pb.x + pb.d)
       IN /\ fd <= pb.cfg.m_inf
          /\ pb' = [pb EXCEPT !.pc = "done", !.status = "unbounded", !.fd = fd, !.g = g]
    /\ UNCHANGED <<ag, lb, lso, mt>>

\* faulty variant of PBAppend: the new piece replaces the bundle
PBAppendReplace(s, fd, g) ==
    [s EXCEPT !.fd = fd,
              !.g = g,
              !.G = <<g>>,
              !.F = <<PBIntercept(fd, g, s.x + s.d)>>,
              !.pts = <<s.x + s.d>>]

\* the bundle after the piece of the trial point is appended
PBAppend(s, fd, g) ==
    [s EXCEPT !.fd = fd,
              !.g = g,
              !.G = Append(@, g),
              !.F = Append(@, PBIntercept(fd, g, s.x + s.d)),
              !.pts = Append(@, s.x + s.d)]

PBSeriousStep ==
    /\ PBTrial(pb)
    /\ LET fd == PBFunction(pb.cfg.f, pb.x + pb.d)
           g == PBJacobian(pb.cfg.f, pb.x + pb.d)
           new_x == pb.x + pb.d
       IN /\ ~(fd <= pb.cfg.m_inf)
          /\ PBIsSeriousStep(fd, pb.fx, pb.cfg.m1, pb.v)
          /\ pb' = [PBAppend(pb, fd, g) EXCEPT !.pc = "master",
                                               !.x = new_x,
                                               !.fx = fd,
                                               !.i = @ + 1]
    /\ UNCHANGED <<ag, lb, lso, mt>>

PBNullStep ==
    /\ PBTrial(pb)
    /\ LET fd == PBFunction(pb.cfg.f, pb.x + pb.d)
           g == PBJacobian(pb.cfg.f, pb.x + pb.d)
       IN /\ ~(fd <= pb.cfg.m_inf)
          /\ ~PBIsSeriousStep(fd, pb.fx, pb.cfg.m1, pb.v)
          /\ pb' = [PBAppend(pb, fd, g) EXCEPT !.pc = "master", !.i = @ + 1]
    /\ UNCHANGED <<ag, lb, lso, mt>>

NextPB ==
    \/ PBMasterFails
    \/ PBMasterSolved
    \/ PBStopOptimal
    \/ PBStopBudget
    \/ PBUnbounded
    \/ PBSeriousStep
    \/ PBNullStep

(***************************************************************************)
(* LagrangianBoxConstrainedQuadratic (opti/constrained/bcqp/_base.py)      *)
(*                                                                         *)
(* Vectors have two components, lmbda has four (lmbda_p, lmbda_n); the     *)
(* data Q, q, ub, lmbda are integers and 2 x 2 matrices are pairs of rows. *)
(* Function values are fixed-point numbers.                                *)
(*                                                                         *)
(* lb is the object:                                                       *)
(*   last_lmbda, last_x   the one-slot memo (has_memo is FALSE while       *)
(*                        last_lmbda is None)                              *)
(*   primal_x, primal_f_x the cached primal heuristic                      *)
(*   factorizations       the calls of np.linalg.cholesky made so far      *)
(*   log                  the calls that have returned, in order: the name *)
(*                        and the argument of each, whether it called      *)
(*                        cholesky_solve, the x it worked with (as it was  *)
(*                        before any projection) and what it returned      *)
(*   evaluated            the values v = primal.function(x) computed so    *)
(*                        far by jacobian                                  *)
(* numpy arrays are objects: in jacobian the names x and self.last_x are   *)
(* bound to one array in both branches, so the in-place projection of x    *)
(* is a projection of self.last_x (and of self.primal_x when it is bound   *)
(* to that array too); a later solve binds self.last_x to a new array.     *)
(***************************************************************************)
LBMaxCalls == 3

Dot(a, b) == a[1] * b[1] + a[2] * b[2]

MatVec(A, x) == <<Dot(A[1], x), Dot(A[2], x)>>

VecAdd(a, b) == <<a[1] + b[1], a[2] + b[2]>>

VecSub(a, b) == <<a[1] - b[1], a[2] - b[2]>>

VecNeg(a) == <<-a[1], -a[2]>>

\* np.linalg.cholesky: the lower factor, read from the lower triangle of A
Cholesky(A) ==
    LET l11 == ISqrtFrom(A[1][1], 0)
        l21 == RoundDiv(A[2][1], l11)
        l22 == ISqrtFrom(A[2][2] - l21 * l21, 0)
    IN <<<<l11, 0>>, <<l21, l22>>>>

\* np.linalg.solve(L, b) for a lower triangular L
SolveLower(L, b) ==
    LET y1 == RoundDiv(b[1], L[1][1])
    IN <<y1, RoundDiv(b[2] - L[2][1] * y1, L[2][2])>>

\* np.linalg.solve(L.T, y) for a lower triangular L
SolveUpper(L, y) ==
    LET x2 == RoundDiv(y[2], L[2][2])
    IN <<RoundDiv(y[1] - L[2][1] * x2, L[1][1]), x2>>

\* utils.cholesky_solve(A, b): factorizes its first argument, then solves
cholesky_solve(A, b) ==
    LET L == Cholesky(A)
    IN SolveUpper(L, SolveLower(L, b))

\* positive definite is left as it is
nearest_posdef(Q) == Q

\* Quadratic.function: 1/2 x' Q x + q' x
QuadraticFunction(Q, q, x) == RoundDiv(Fx(Dot(x, MatVec(Q, x))), 2) + Fx(Dot(q, x))

\* the matrices Q = L L' with L = [[1, 0], [r, r^2 + 1]]
LBMatrices == {<<<<1, r>>, <<r, r * r + (r * r + 1) * (r * r + 1)>>>> : r \in -1..1}

LBConfigs ==
    [Q : LBMatrices,
     q : {<<1, -3>>, <<-2, 1>>},
     ub : {<<1, 1>>, <<0, 2>>, <<-1, 1>>}]

\* LagrangianBoxConstrainedQuadratic.__init__ validation of ub
LBAccepted(c) == ~(\E j \in 1..2 : c.ub[j] < 0)

\* the dual points the caller evaluates (all >= 0)
LBLambdas ==
    {<<p[1], p[2], n[1], n[2]>> : p \in {<<0, 0>>, <<2, 0>>, <<0, 1>>},
                                  n \in {<<0, 0>>, <<0, 3>>}}

\* the object after __init__
LBStart(c) ==
    [pc |-> "ready",
     Q |-> nearest_posdef(c.Q),
     q |-> c.q,
     L |-> Cholesky(nearest_posdef(c.Q)),
     ub |-> c.ub,
     primal |-> [Q |-> c.Q, q |-> c.q],
     primal_x |-> <<Inf, Inf>>,
     primal_f_x |-> Inf,
     has_memo |-> FALSE,
     last_lmbda |-> <<0, 0, 0, 0>>,
     last_x |-> <<0, 0>>,
     factorizations |-> 1,
     log |-> <<>>,
     evaluated |-> {}]

\* np.split(lmbda, 2) and ql = q + lmbda_p - lmbda_n
LBql(q, lmbda) == VecSub(VecAdd(q, <<lmbda[1], lmbda[2]>>), <<lmbda[3], lmbda[4]>>)

\* faulty variant of LBMemoHit: the memo is never recognised
LBMemoHitNever(s, lmbda) == FALSE

\* np.array_equal(lmbda, self.last_lmbda)
LBMemoHit(s, lmbda) == s.has_memo /\ lmbda = s.last_lmbda

\* the calls of np.linalg.cholesky that one evaluation at lmbda makes: one
\* inside cholesky_solve whenever the memo does not answer
LBFactorizations(s, lmbda) == IF LBMemoHit(s, lmbda) THEN 0 ELSE 1

\* the x that function and jacobian work with
LBSolution(s, lmbda) ==
    IF LBMemoHit(s, lmbda) THEN s.last_x ELSE cholesky_solve(s.L, VecNeg(LBql(s.q, lmbda)))

\* the value function returns for x
LBValue(s, lmbda, x) ==
    RoundDiv(Fx(Dot(x, MatVec(s.Q, x))), 2) + Fx(Dot(LBql(s.q, lmbda), x))
        - Fx(Dot(<<lmbda[1], lmbda[2]>>, s.ub))

\* faulty variant of LBProject: only the lower bound is enforced
LBProjectLower(x, ub) == [j \in 1..2 |-> IF x[j] < 0 THEN 0 ELSE x[j]]

\* x[x < 0] = 0; x[x > ub] = ub[x > ub]
LBProject(x, ub) ==
    [j \in 1..2 |-> LET lo == IF x[j] < 0 THEN 0 ELSE x[j]
                    IN IF lo > ub[j] THEN ub[j] ELSE lo]

\* the value stored with an improving heuristic point of value v
LBStoredValue(v) == -v

LBFunction ==
    /\ lb.pc = "ready"
    /\ Len(lb.log) < LBMaxCalls
    /\ \E lmbda \in LBLambdas :
          LET hit == LBMemoHit(lb, lmbda)
              x == LBSolution(lb, lmbda)
          IN lb' = [lb EXCEPT !.has_memo = TRUE,
                              !.last_lmbda = lmbda,
                              !.last_x = x,
                              !.factorizations = @ + LBFactorizations(lb, lmbda),
                              !.log = Append(@, [op |-> "function", lmbda |-> lmbda,
                                                 solved |-> ~hit, x |-> x,
                                                 ret |-> <<LBValue(lb, lmbda, x)>>])]
    /\ UNCHANGED <<ag, pb, lso, mt>>

LBJacobian ==
    /\ lb.pc = "ready"
    /\ Len(lb.log) < LBMaxCalls
    /\ \E lmbda \in LBLambdas :
          LET hit == LBMemoHit(lb, lmbda)
              x == LBSolution(lb, lmbda)
              g == <<lb.ub[1] - x[1], lb.ub[2] - x[2], x[1], x[2]>>
              px == LBProject(x, lb.ub)
              v == QuadraticFunction(lb.primal.Q, lb.primal.q, px)
              improves == v < lb.primal_f_x
          IN lb' = [lb EXCEPT !.has_memo = TRUE,
                              !.last_lmbda = lmbda,
                              !.last_x = px,
                              !.factorizations = @ + LBFactorizations(lb, lmbda),
                              !.primal_x = IF improves THEN px ELSE @,
                              !.primal_f_x = IF improves THEN LBStoredValue(v) ELSE @,
                              !.evaluated = @ \cup {v},
                              !.log = Append(@, [op |-> "jacobian", lmbda |-> lmbda,
                                                 solved |-> ~hit, x |-> x, ret |-> g])]
    /\ UNCHANGED <<ag, pb, lso, mt>>

NextLB ==
    \/ LBFunction
    \/ LBJacobian

(***************************************************************************)
(* LagrangianBoxConstrainedQuadratic evaluated by two threads              *)
(*                                                                         *)
(* mt is one relaxation object shared by the threads of MTThreads, each of *)
(* which calls function or jacobian on it; a thread switch may happen      *)
(* between any two statements of a call.  With mt.serial the calls are     *)
(* serialized: a call starts only when no other call is in progress.       *)
(*   heap        the arrays returned by cholesky_solve, in the order of    *)
(*               their creation: val is the content of the array, of is    *)
(*               the lmbda the solve was made for                          *)
(*   last_x      the array self.last_x is bound to (an index of heap, 0    *)
(*               for None); primal_x likewise                              *)
(*   th          for each thread its position in the call (pc), the call   *)
(*               (op, lmbda), the array its local x is bound to, whether   *)
(*               the memo answered (hit) and the number of calls that had  *)
(*               returned when the call started (after)                    *)
(*   started     the calls started so far                                  *)
(*   log         the calls that have returned or raised, in order          *)
(***************************************************************************)
MTMaxCalls == 3

MTThreads == {1, 2}

\* the points the threads evaluate
MTLambdas == {<<0, 0, 0, 0>>, <<2, 0, 0, 3>>}

MTConfigs ==
    [Q : {<<<<1, 0>>, <<0, 1>>>>},
     q : {<<1, -3>>},
     ub : {<<1, 1>>},
     serial : BOOLEAN]

MTThreadIdle ==
    [pc |-> "idle", op |-> "none", lmbda |-> <<0, 0, 0, 0>>, x |-> 0, hit |-> FALSE,
     after |-> 0]

\* the object after __init__, no call in progress
MTStart(c) ==
    [pc |-> "shared",
     serial |-> c.serial,
     Q |-> nearest_posdef(c.Q),
     q |-> c.q,
     L |-> Cholesky(nearest_posdef(c.Q)),
     ub |-> c.ub,
     primal |-> [Q |-> c.Q, q |-> c.q],
     primal_x |-> 0,
     primal_f_x |-> Inf,
     has_memo |-> FALSE,
     last_lmbda |-> <<0, 0, 0, 0>>,
     last_x |-> 0,
     heap |-> <<>>,
     th |-> [t \in MTThreads |-> MTThreadIdle],
     started |-> 0,
     log |-> <<>>]

\* whether thread t may start a call
MTMayStart(s, t) ==
    s.serial => \A u \in MTThreads \ {t} : s.th[u].pc = "idle"

\* faulty variant of MTNewKey: the key of the memo is left as it was
MTNewKeyStale(old, lmbda) == old

\* self.last_lmbda = lmbda
MTNewKey(old, lmbda) == lmbda

\* a thread calls function(lmbda) or jacobian(lmbda)
MTCall ==
    /\ mt.started < MTMaxCalls
    /\ \E t \in MTThreads, op \in {"function", "jacobian"}, lmbda \in MTLambdas :
          /\ mt.th[t].pc = "idle"
          /\ MTMayStart(mt, t)
          /\ mt' = [mt EXCEPT !.started = @ + 1,
                              !.th[t] = [pc |-> "check", op |-> op, lmbda |-> lmbda,
                                         x |-> 0, hit |-> FALSE, after |-> Len(mt.log)]]
    /\ UNCHANGED <<ag, pb, lb, lso>>

\* if np.array_equal(lmbda, self.last_lmbda)
MTCheck ==
    /\ \E t \in MTThreads :
          /\ mt.th[t].pc = "check"
          /\ LET hit == mt.has_memo /\ mt.th[t].lmbda = mt.last_lmbda
             IN mt' = [mt EXCEPT !.th[t].hit = hit,
                                 !.th[t].pc = IF hit THEN "read" ELSE "solve"]
    /\ UNCHANGED <<ag, pb, lb, lso>>

\* x = self.last_x
MTRead ==
    /\ \E t \in MTThreads :
          /\ mt.th[t].pc = "read"
          /\ mt' = [mt EXCEPT !.th[t].x = mt.last_x, !.th[t].pc = "tail"]
    /\ UNCHANGED <<ag, pb, lb, lso>>

\* x = cholesky_solve(self.L, -ql)
MTSolve ==
    /\ \E t \in MTThreads :
          /\ mt.th[t].pc = "solve"
          /\ LET lmbda == mt.th[t].lmbda
                 x == cholesky_solve(mt.L, VecNeg(LBql(mt.q, lmbda)))
             IN mt' = [mt EXCEPT !.heap = Append(@, [val |-> x, of |-> lmbda]),
                                 !.th[t].x = Len(mt.heap) + 1,
                                 !.th[t].pc = "key"]
    /\ UNCHANGED <<ag, pb, lb, lso>>

\* self.last_lmbda = lmbda
MTWriteKey ==
    /\ \E t \in MTThreads :
          /\ mt.th[t].pc = "key"
          /\ mt' = [mt EXCEPT !.has_memo = TRUE,
                              !.last_lmbda = MTNewKey(@, mt.th[t].lmbda),
                              !.th[t].pc = "value"]
    /\ UNCHANGED <<ag, pb, lb, lso>>

\* self.last_x = x
MTWriteValue ==
    /\ \E t \in MTThreads :
          /\ mt.th[t].pc = "value"
          /\ mt' = [mt EXCEPT !.last_x = mt.th[t].x, !.th[t].pc = "tail"]
    /\ UNCHANGED <<ag, pb, lb, lso>>

\* the rest of the call when x is None (the memo answered between the write
\* of its key and the first write of its value): x.T and self.ub - x raise
MTRaise ==
    /\ \E t \in MTThreads :
          /\ mt.th[t].pc = "tail"
          /\ mt.th[t].x = 0
          /\ LET c == mt.th[t]
             IN mt' = [mt EXCEPT !.th[t] = MTThreadIdle,
                                 !.log = Append(@, [th |-> t, op |-> c.op, lmbda |-> c.lmbda,
                                                    hit |-> c.hit, raised |-> TRUE,
                                                    x |-> <<Inf, Inf>>,
                                                    of |-> <<Inf, Inf, Inf, Inf>>,
                                                    after |-> c.after])]
    /\ UNCHANGED <<ag, pb, lb, lso>>

\* the rest of the call: function returns the value for x; jacobian builds
\* g, projects x in place, updates the primal heuristic and returns g
MTTail ==
    /\ \E t \in MTThreads :
          /\ mt.th[t].pc = "tail"
          /\ mt.th[t].x # 0
          /\ LET c == mt.th[t]
                 x == mt.heap[c.x].val
                 px == LBProject(x, mt.ub)
                 v == QuadraticFunction(mt.primal.Q, mt.primal.q, px)
                 improves == v < mt.primal_f_x
                 entry == [th |-> t, op |-> c.op, lmbda |-> c.lmbda, hit |-> c.hit,
                           raised |-> FALSE, x |-> x, of |-> mt.heap[c.x].of, after |-> c.after]
             IN IF c.op = "function"
                THEN mt' = [mt EXCEPT !.th[t] = MTThreadIdle,
                                      !.log = Append(@, entry)]
                ELSE mt' = [mt EXCEPT !.th[t] = MTThreadIdle,
                                      !.heap[c.x].val = px,
                                      !.primal_x = IF improves THEN c.x ELSE @,
                                      !.primal_f_x = IF improves THEN LBStoredValue(v) ELSE @,
                                      !.log = Append(@, entry)]
    /\ UNCHANGED <<ag, pb, lb, lso>>

NextMT ==
    \/ MTCall
    \/ MTCheck
    \/ MTRead
    \/ MTSolve
    \/ MTWriteKey
    \/ MTWriteValue
    \/ MTRaise
    \/ MTTail

(***************************************************************************)
(* LineSearchOptimizer (line_search_optimizer.py)                          *)
(*                                                                         *)
(* lso is the optimizer object:                                            *)
(*   pc          "new" while __init__ has not run, "ready" afterwards      *)
(*   cfg         the arguments of __init__                                 *)
(*   line_search the line search object built by __init__                  *)
(*   raised      the calls of minimize() so far, each of which raised      *)
(*               NotImplementedError                                       *)
(***************************************************************************)
LSMaxCalls == 2

LSConfigs ==
    [m1 : {1, Scale \div 2},
     m2 : {-(Scale \div 2), 0, 1, Scale \div 2, Fx(1) - 1, Fx(1), Fx(1) + 1, Fx(2)},
     a_start : {Fx(1)},
     tau : {Scale \div 2},
     sfgrd : {1},
     min_a : {1},
     m_inf : {NegInf},
     max_f_eval : {1, MaxFEval}]

\* faulty variant of LSUsesArmijoWolfe: the interval is closed
LSUsesArmijoWolfeClosed(m2) == 0 <= m2 /\ m2 <= Fx(1)

\* if 0 < m2 < 1
LSUsesArmijoWolfe(m2) == 0 < m2 /\ m2 < Fx(1)

\* ArmijoWolfeLineSearch(f, max_f_eval, m1, m2, a_start, tau, sfgrd, min_a)
ArmijoWolfeLineSearch(c) ==
    [kind |-> "ArmijoWolfe", max_f_eval |-> c.max_f_eval, m1 |-> c.m1, m2 |-> c.m2,
     a_start |-> c.a_start, tau |-> c.tau, sfgrd |-> c.sfgrd, min_a |-> c.min_a]

\* BacktrackingLineSearch(f, max_f_eval, m1, a_start, min_a, tau)
BacktrackingLineSearch(c) ==
    [kind |-> "Backtracking", max_f_eval |-> c.max_f_eval, m1 |-> c.m1,
     a_start |-> c.a_start, min_a |-> c.min_a, tau |-> c.tau]

\* LineSearchOptimizer.__init__
LSConstruct ==
    /\ lso.pc = "new"
    /\ lso' = [pc |-> "ready",
               cfg |-> lso.cfg,
               m_inf |-> lso.cfg.m_inf,
               line_search |-> IF LSUsesArmijoWolfe(lso.cfg.m2)
                               THEN ArmijoWolfeLineSearch(lso.cfg)
                               ELSE BacktrackingLineSearch(lso.cfg),
               raised |-> 0]
    /\ UNCHANGED <<ag, pb, lb, mt>>

\* LineSearchOptimizer.minimize: raise NotImplementedError
LSMinimize ==
    /\ lso.pc = "ready"
    /\ lso.raised < LSMaxCalls
    /\ lso' = [lso EXCEPT !.raised = @ + 1]
    /\ UNCHANGED <<ag, pb, lb, mt>>

NextLS ==
    \/ LSConstruct
    \/ LSMinimize

(***************************************************************************)
(* Specifications                                                          *)
(***************************************************************************)
\* objects that are not in use
AGIdle == [pc |-> "idle"]
PBIdle == [pc |-> "idle"]
LBIdle == [pc |-> "idle"]
LSIdle == [pc |-> "idle"]
MTIdle == [pc |-> "idle"]

InitAG ==
    /\ ag \in {AGStart(c) : c \in {k \in AGConfigs : AGAccepted(k)}}
    /\ pb = PBIdle
    /\ lb = LBIdle
    /\ lso = LSIdle
    /\ mt = MTIdle

SpecAG == InitAG /\ [][NextAG]_vars

\* the configurations of the runs followed to their end: one starting point,
\* an absolute tolerance, the two larger steps; every objective, budget,
\* formula and both versions of the step size and of the monotone safeguard
AGFairConfigs ==
    {c \in AGConfigs : /\ AGAccepted(c)
                       /\ c.x0 = Fx(2)
                       /\ c.eps > 0
                       /\ c.a_start \in {Scale \div 2, Fx(1)}}

InitAGFair ==
    /\ ag \in {AGStart(c) : c \in AGFairConfigs}
    /\ pb = PBIdle
    /\ lb = LBIdle
    /\ lso = LSIdle
    /\ mt = MTIdle

\* minimize() is sequential code: a run that can take a step takes it
SpecAGFair == InitAGFair /\ [][NextAG]_vars /\ WF_vars(NextAG)

InitPB ==
    /\ pb \in {PBStart(c) : c \in {k \in PBConfigs : PBAccepted(k)}}
    /\ ag = AGIdle
    /\ lb = LBIdle
    /\ lso = LSIdle
    /\ mt = MTIdle

SpecPB == InitPB /\ [][NextPB]_vars

InitLB ==
    /\ lb \in {LBStart(c) : c \in {k \in LBConfigs : LBAccepted(k)}}
    /\ ag = AGIdle
    /\ pb = PBIdle
    /\ lso = LSIdle
    /\ mt = MTIdle

SpecLB == InitLB /\ [][NextLB]_vars

InitLS ==
    /\ lso \in {[pc |-> "new", cfg |-> c] : c \in LSConfigs}
    /\ ag = AGIdle
    /\ pb = PBIdle
    /\ lb = LBIdle
    /\ mt = MTIdle

SpecLS == InitLS /\ [][NextLS]_vars

InitMT ==
    /\ mt \in {MTStart(c) : c \in MTConfigs}
    /\ ag = AGIdle
    /\ pb = PBIdle
    /\ lb = LBIdle
    /\ lso = LSIdle

SpecMT == InitMT /\ [][NextMT]_vars

(***************************************************************************)
(* Properties of AcceleratedGradient.minimize                              *)
(***************************************************************************)
\* C1: minimize always ends by returning a point with exactly one status in
\* {optimal, unbounded, stopped, error}; no run ends in a thrown fault.
AGReturnsStatus == ag.pc = "done" => ag.status \in AGStatuses

\* the norm of the very first gradient of the run
AGFirstNg == Norm(Jacobian(ag.cfg.f, ag.cfg.x0))

\* C2: with eps < 0 the stopping criterion is relative at every iteration: an
\* iteration whose gradient norm is <= (-eps) * (norm of the first gradient)
\* stops with status optimal, so no iteration goes past the stopping criteria
\* and on to its step with such a gradient norm.
AGRelativeStopEveryIteration ==
    (ag.cfg.eps < 0 /\ ag.pc = "update") => ~(ag.ng <= Mul(-ag.cfg.eps, AGFirstNg))

\* C12: the evaluation counter f_eval never decreases from one step to the
\* next and never exceeds max_f_eval by more than one inner pass of the line
\* search (the evaluation of the loop head after a line search that spent the
\* budget: max_f_eval + 2); with the fixed step (m1 = 0) it is at most
\* max_f_eval + 1 in every reachable state.
AGEvaluationsBounded ==
    /\ [][ag'.f_eval >= ag.f_eval]_vars
    /\ [](ag.f_eval <= ag.cfg.max_f_eval + 2)
    /\ [](ag.cfg.m1 = 0 => ag.f_eval <= ag.cfg.max_f_eval + 1)

\* a fixed-step run that spent a budget of at least three evaluations
AGEvaluationsBoundedWitness ==
    /\ ag.pc = "done"
    /\ ag.status = "stopped"
    /\ ag.cfg.m1 = 0
    /\ ag.cfg.max_f_eval >= 3
    /\ ag.f_eval = ag.cfg.max_f_eval + 1

\* C13: in the monotone version (mon # 0) with the fixed step the point x
\* that minimize returns is the best solution found: its value is no greater
\* than the value at any point (y or y - a * g) at which the objective was
\* evaluated during the run.  Stated for the runs that end optimal or
\* stopped, the statuses that promise the best solution found so far.
AGMonotoneReturnsBest ==
    (/\ ag.pc = "done"
     /\ ag.status \in {"optimal", "stopped"}
     /\ ag.cfg.mon # 0
     /\ ag.cfg.m1 = 0)
    => \A w \in ag.evaluated : Function(ag.cfg.f, ag.x) <= w

\* the default configuration of the end-to-end run on f(x) = ||x||^2: wf = 0,
\* the monotone version, fixed step a_start = 1, an absolute tolerance, no
\* finite -inf, the smallest min_a and the largest budget
AGQuadraticDefaults ==
    /\ ag.cfg.f = "sq"
    /\ ag.cfg.wf = 0
    /\ ag.cfg.mon # 0
    /\ ag.cfg.m1 = 0
    /\ ag.cfg.a_start = Fx(1)
    /\ ag.cfg.eps > 0
    /\ ag.cfg.m_inf = NegInf
    /\ ag.cfg.min_a = 1
    /\ ag.cfg.max_f_eval = MaxFEval

\* C14: with wf = 0, the monotone version and the defaults (fixed step
\* a_start = 1, m1 = 0) the run on f(x) = ||x||^2 from a non-zero start ends
\* with status optimal and a returned x with ||x|| <= eps.
AGQuadraticEndToEnd ==
    (ag.pc = "done" /\ AGQuadraticDefaults)
    => (ag.status = "optimal" /\ Norm(ag.x) <= ag.cfg.eps)

\* C17: with the fixed step (m1 = 0) minimize terminates for every objective
\* and every budget max_f_eval >= 1: the loop runs at most max_f_eval
\* iterations, it ends with one of the four statuses, no iteration goes on to
\* its step once f_eval exceeds max_f_eval, and a run that ends stopped ends
\* at the iteration where f_eval first exceeds max_f_eval.
AGFixedStepTerminates ==
    /\ (ag.cfg.m1 = 0) ~> (ag.pc = "done")
    /\ [](ag.cfg.m1 = 0 =>
             /\ ag.i <= ag.cfg.max_f_eval
             /\ ag.pc = "update" => ag.f_eval <= ag.cfg.max_f_eval
             /\ ag.pc = "done" => ag.status \in AGStatuses
             /\ ag.status = "stopped" =>
                   (ag.f_eval = ag.cfg.max_f_eval + 1 /\ ag.i = ag.cfg.max_f_eval))

\* a fixed-step run on x^2 that never meets the stopping criterion has ended
\* stopped in iteration max_f_eval
AGFixedStepTerminatesWitness ==
    /\ ag.pc = "done"
    /\ ag.status = "stopped"
    /\ ag.cfg.m1 = 0
    /\ ag.cfg.f = "sq"
    /\ ag.cfg.a_start = Fx(1)
    /\ ag.cfg.max_f_eval = MaxFEval
    /\ ag.i = MaxFEval

\* C19: with wf = 3 the direction d is a running direction: the d that enters
\* the blend d <- (2 / (i + 2)) * g + (i / (i + 2)) * d of iteration i is the d
\* that the blend of iteration i - 1 produced (zeros in the first iteration);
\* no other statement of the loop overwrites d between two blends.
AGRunningDirection ==
    (ag.cfg.wf = 3 /\ ag.pc = "update") => ag.d = ag.blend

PBDecision ==
    [][(pb.pc = "check" /\ pb'.pc = "master") =>
          LET trial == pb.x + pb.d
              fd == PBFunction(pb.cfg.f, trial)
              n == Len(pb.G)
          IN /\ IF fd <= pb.fx + Mul(pb.cfg.m1, pb.v - pb.fx)
                THEN pb'.x = trial /\ pb'.fx = fd
                ELSE pb'.x = pb.x /\ pb'.fx = pb.fx
             /\ Len(pb'.G) = n + 1 /\ Len(pb'.F) = n + 1
             /\ pb'.G[n + 1] = PBJacobian(pb.cfg.f, trial)
             /\ pb'.F[n + 1] = fd - Mul(pb'.G[n + 1], trial)]_vars

\* a Null Step has been taken: the incumbent is still x0, the bundle has grown
PBDecisionWitness ==
    /\ pb.pc = "master"
    /\ pb.i = 2
    /\ Len(pb.G) = 2
    /\ pb.x = pb.cfg.x0
    /\ pb.pts[2] # pb.cfg.x0
    /\ pb.fx = PBFunction(pb.cfg.f, pb.cfg.x0)

\* C5: the bundle is append-only: at the start of iteration i it holds
\* exactly i pieces, a step keeps every piece it had and adds at most one,
\* and a step that terminates the run leaves the bundle unchanged.
PBBundleAppendOnly ==
    /\ [](pb.pc \in {"master", "check"} => Len(pb.G) = pb.i /\ Len(pb.F) = pb.i)
    /\ [][/\ Len(pb'.G) \in {Len(pb.G), Len(pb.G) + 1}
          /\ Len(pb'.F) = Len(pb'.G)
          /\ SubSeq(pb'.G, 1, Len(pb.G)) = pb.G
          /\ SubSeq(pb'.F, 1, Len(pb.F)) = pb.F
          /\ (pb.pc = "check" /\ pb'.pc = "master") => Len(pb'.G) = Len(pb.G) + 1
          /\ pb'.pc = "done" => (pb'.G = pb.G /\ pb'.F = pb.F)]_vars

\* the third iteration starts with three pieces
PBBundleAppendOnlyWitness == pb.pc = "master" /\ pb.i = 3 /\ Len(pb.G) = 3

\* C6: every piece (G[k], F[k]) is exact at the point pts[k] it was generated
\* at: G[k] is the subgradient there and G[k] * pts[k] + F[k] is the value
\* of the objective there.
PBPieceExact ==
    \A k \in 1..Len(pb.F) :
        /\ pb.G[k] = PBJacobian(pb.cfg.f, pb.pts[k])
        /\ Mul(pb.G[k], pb.pts[k]) + pb.F[k] = PBFunction(pb.cfg.f, pb.pts[k])

\* a bundle of three pieces, the last of them generated from a moved incumbent
PBPieceExactWitness ==
    /\ Len(pb.F) = 3
    /\ pb.pts[2] # pb.cfg.x0
    /\ pb.pts[3] # pb.pts[2]
    /\ pb.G[3] # 0
    /\ \E k \in 2..3 : pb.x = pb.pts[k]

\* C15: the constructor validates m1 eagerly: every m1 outside [0, 1) (any
\* m1 < 0 and any m1 >= 1, m1 = 1 included) is rejected before any iteration
\* runs and every m1 in [0, 1) is accepted, so that no solver object exists
\* with an m1 outside [0, 1).
PBValidatesM1 ==
    /\ \A c \in PBConfigs :
          c.mu > 0 => (PBAccepted(c) <=> (0 <= c.m1 /\ c.m1 < Fx(1)))
    /\ 0 <= pb.cfg.m1 /\ pb.cfg.m1 < Fx(1)

(***************************************************************************)
(* Properties of LagrangianBoxConstrainedQuadratic                         *)
(***************************************************************************)
\* C7: jacobian(lmbda) called right after function(lmbda) with an identical
\* lmbda makes no linear solve, works with exactly the x that function
\* computed and stored in the memo, and leaves the memo key as it was.
LBJacobianReusesSolve ==
    [][\A lmbda \in LBLambdas :
          (/\ Len(lb.log) >= 1
           /\ lb.log[Len(lb.log)].op = "function"
           /\ lb.log[Len(lb.log)].lmbda = lmbda
           /\ Len(lb'.log) = Len(lb.log) + 1
           /\ lb'.log[Len(lb'.log)].op = "jacobian"
           /\ lb'.log[Len(lb'.log)].lmbda = lmbda)
          => LET f == lb.log[Len(lb.log)]
                 j == lb'.log[Len(lb'.log)]
             IN /\ ~j.solved
                /\ j.x = f.x
                /\ j.x = lb.last_x
                /\ j.ret = <<lb.ub[1] - f.x[1], lb.ub[2] - f.x[2], f.x[1], f.x[2]>>
                /\ lb'.last_lmbda = lb.last_lmbda
                /\ lb'.has_memo]_vars

\* function(lmbda) made a solve and jacobian(lmbda) has followed it
LBJacobianReusesSolveWitness ==
    /\ Len(lb.log) = 2
    /\ lb.log[1].op = "function" /\ lb.log[1].solved
    /\ lb.log[2].op = "jacobian" /\ lb.log[2].lmbda = lb.log[1].lmbda
    /\ lb.log[2].x # <<0, 0>>

\* C8: whenever the memo is non-empty, last_x is the (unprojected) solution
\* of Q x = -(q + lmbda_p - lmbda_n) for its key last_lmbda; hence two calls
\* of function at one lmbda return the same value, whether answered from the
\* memo or from a fresh solve.
LBMemoConsistent ==
    /\ lb.has_memo => MatVec(lb.Q, lb.last_x) = VecNeg(LBql(lb.q, lb.last_lmbda))
    /\ \A j, k \in 1..Len(lb.log) :
          (lb.log[j].op = "function" /\ lb.log[k].op = "function"
           /\ lb.log[j].lmbda = lb.log[k].lmbda) => lb.log[j].ret = lb.log[k].ret

\* the smallest of a non-empty set of numbers
SetMin(S) == CHOOSE m \in S : \A n \in S : m <= n

\* C9: after any sequence of jacobian calls the cached heuristic value is the
\* minimum primal value over all projected points evaluated so far and the
\* cached heuristic point is a point attaining it.
LBHeuristicIsBest ==
    lb.evaluated # {} =>
        /\ lb.primal_f_x = SetMin(lb.evaluated)
        /\ QuadraticFunction(lb.primal.Q, lb.primal.q, lb.primal_x) = lb.primal_f_x

\* C10: after at least one jacobian call the cached primal heuristic point
\* satisfies 0 <= x[j] <= ub[j] in every component j.
LBHeuristicFeasible ==
    lb.evaluated # {} => \A j \in 1..2 : 0 <= lb.primal_x[j] /\ lb.primal_x[j] <= lb.ub[j]

\* the cached heuristic point comes from a solution that left the box on both
\* sides
LBHeuristicFeasibleWitness ==
    \E k \in 1..Len(lb.log) :
        /\ lb.log[k].op = "jacobian"
        /\ \E j \in 1..2 : lb.log[k].x[j] < 0
        /\ \E j \in 1..2 : lb.log[k].x[j] > lb.ub[j]
        /\ lb.primal_x = LBProject(lb.log[k].x, lb.ub)

\* C11: the factorization of Q is computed exactly once, at construction: no
\* call of function or jacobian computes a factorization again, and every
\* solve applies the factors of Q, so that the x of a call that solved
\* satisfies Q x = -(q + lmbda_p - lmbda_n).
LBFactorizedOnce ==
    /\ lb.factorizations = 1
    /\ \A k \in 1..Len(lb.log) :
          lb.log[k].solved =>
              MatVec(lb.Q, lb.log[k].x) = VecNeg(LBql(lb.q, lb.log[k].lmbda))

(***************************************************************************)
(* Properties of LineSearchOptimizer                                       *)
(***************************************************************************)
\* C16: the line search is selected once, at construction: an Armijo-Wolfe
\* line search if and only if 0 < m2 < 1 strictly and a Backtracking line
\* search for every other m2 (0, 1, negative values and values above 1);
\* the selected line search is never replaced afterwards.
LSSelectsOnce ==
    /\ [](lso.pc = "ready" =>
             lso.line_search.kind = IF 0 < lso.cfg.m2 /\ lso.cfg.m2 < Fx(1)
                                    THEN "ArmijoWolfe"
                                    ELSE "Backtracking")
    /\ [][lso.pc = "ready" => lso'.line_search = lso.line_search]_vars

\* an optimizer constructed with m2 = 1 holds a Backtracking line search
\* after minimize has been called
LSSelectsOnceWitness ==
    /\ lso.pc = "ready"
    /\ lso.cfg.m2 = Fx(1)
    /\ lso.line_search.kind = "Backtracking"
    /\ lso.raised >= 1

(***************************************************************************)
(* Properties of the one-slot memo under two threads                       *)
(***************************************************************************)
\* no call is in progress
MTQuiet == \A t \in MTThreads : mt.th[t].pc = "idle"

\* the memo holds the key of one point and the solution made for another
MTMemoMixed ==
    /\ mt.has_memo
    /\ mt.last_x # 0
    /\ mt.heap[mt.last_x].of # mt.last_lmbda

\* C18: with the evaluations serialized the key and value writes never leave
\* the memo mixed: whenever no call is in progress the array self.last_x is
\* bound to is the solution that was made for the key self.last_lmbda, and
\* every call the memo answers works with the solution made for its own
\* lmbda.  Without the serialization a mixed memo is reachable.
MTSerializedMemoConsistent ==
    mt.serial =>
        /\ (MTQuiet /\ mt.has_memo) => (mt.last_x # 0 /\ ~MTMemoMixed)
        /\ \A k \in 1..Len(mt.log) :
              /\ ~mt.log[k].raised
              /\ mt.log[k].hit => mt.log[k].of = mt.log[k].lmbda

\* two threads evaluated at different points without serialization and both
\* calls returned, leaving the memo with the key of one point and the
\* solution of the other; a third call of function, started after that at the
\* point of the key, was answered by the memo with an x that is not the
\* solution for its lmbda
MTSerializedMemoConsistentWitness ==
    /\ ~mt.serial
    /\ MTQuiet
    /\ MTMemoMixed
    /\ Len(mt.log) = 3
    /\ ~mt.log[1].hit /\ ~mt.log[2].hit
    /\ mt.log[1].th # mt.log[2].th
    /\ mt.log[1].lmbda # mt.log[2].lmbda
    /\ mt.log[3].op = "function"
    /\ mt.log[3].after = 2
    /\ mt.log[3].hit /\ ~mt.log[3].raised
    /\ mt.log[3].lmbda = mt.last_lmbda
    /\ mt.log[3].of # mt.log[3].lmbda
    /\ mt.log[3].x # cholesky_solve(mt.L, VecNeg(LBql(mt.q, mt.log[3].lmbda)))

====
